---- MODULE Spec2Model ----
(***************************************************************************)
(* Model of custom-logic.js: the PDF fuzzy-search viewer.                  *)
(*                                                                         *)
(*   - extractTextCorpus: glyph runs -> lines -> normalised corpus         *)
(*   - the search step of main: Fuse result, substring fallback, top 5     *)
(*   - the render pipeline: main, the background fill, renderPage,         *)
(*     the renderQueue promise chain, the navigation controls and the      *)
(*     result-list click handlers                                          *)
(*                                                                         *)
(* Numbers are integers (PDF user-space units); text is a sequence of      *)
(* one-character strings.                                                  *)
(***************************************************************************)
EXTENDS Integers, Sequences, FiniteSets, TLC

VARIABLES
    \* ---- inputs of a session
    doc,              \* the pdf: doc[i] is the textContent.items of page i
    searchTerm,       \* getSearchTerm(): <<>> stands for null / empty
    inputVal,         \* PAGE_NUMBER_INPUT.value
    \* ---- main
    mainPc,           \* where main (and its background fill) stands
    exI,              \* the page extractTextCorpus is at
    bgI,              \* the page the fill loop of main is at
    gPdf,             \* gPdf !== null
    searchableCorpus,
    fuseResults,      \* what fuse.search returned, <<>> when no search ran
    results,
    topMatches,
    bestMatch,        \* <<>> (null) or <<match>>
    status,           \* STATUS_DISPLAY.textContent
    errorPanel,       \* the error markup put in PDF_CONTAINER, <<>> if none
    errorCount,       \* runs of the catch block of main
    caught,           \* the failures the catch block of main handled, in order
    \* ---- rendering
    renders,          \* every renderPage call made or queued, in call order
    wrappers,         \* every page wrapper created, in creation order
    renderedPages,
    clicks,           \* result-click handlers that are suspended at an await
    logged,           \* renders whose failure console.error('Render failed:') reported
    events,           \* user events so far
    failures,         \* library promises rejected so far
    raised,           \* the steps that raised a failure so far, in order
    \* ---- the item loop of extractTextCorpus, one page
    items,            \* textContent.items
    itemIdx,          \* the next item of the loop
    fold,             \* [cur |-> <<>> or <<currentLine>>, lines |-> lines]
    opened,           \* the items at which a line object was created
    exPc

inputVars == <<doc, searchTerm, inputVal>>

mainVars == <<mainPc, exI, bgI, gPdf, status, errorPanel, errorCount, caught>>

searchVars == <<searchableCorpus, fuseResults, results, topMatches, bestMatch>>

renderVars == <<renders, wrappers, renderedPages, clicks, logged>>

budgetVars == <<events, failures, raised>>

foldVars == <<items, itemIdx, fold, opened, exPc>>

vars == <<inputVars, mainVars, searchVars, renderVars, budgetVars, foldVars>>

\* ------------------------------------------------------------------ bounds

\* pdf.numPages of the documents of the session specification
NumPages == 3

\* glyph runs of the page folded by the extraction specification
MaxRuns == 3

\* lines of the corpus searched by the search specification
MaxLines == 6

\* user events (button presses, key presses, typing, result clicks) per session
MaxEvents == 2

\* library promises that reject per session
MaxFailures == 1

\* --------------------------------------------------------- program constants

\* Math.abs(currentLine.y - y) <= 3
LINE_TOLERANCE == 3

\* Math.max(Math.abs(tx[3]), 10)
MIN_HEIGHT == 10

\* results.slice(0, 5)
TOP_N == 5

\* FUZZY_SEARCH_THRESHOLD = 0.4, in tenths
FUZZY_SEARCH_THRESHOLD == 4

\* an absent number (item.width undefined, item.height == null)
Undefined == -1

\* ------------------------------------------------------------------ helpers

Max(a, b) == IF a >= b THEN a ELSE b

Min(a, b) == IF a <= b THEN a ELSE b

Abs(a) == IF a >= 0 THEN a ELSE -a

\* ------------------------------------------------------------------- text

Whitespace == {" ", "\t"}

\* String.prototype.toLowerCase, one character
LowerChar(c) == IF c = "A" THEN "a" ELSE IF c = "B" THEN "b" ELSE c

toLowerCase(s) == [i \in 1..Len(s) |-> LowerChar(s[i])]

\* String.prototype.includes
includes(s, q) ==
    \E i \in 0..(Len(s) - Len(q)) : SubSeq(s, i + 1, i + Len(q)) = q

\* s.replace(/\s+/g, ' '): every maximal whitespace run becomes one space
RECURSIVE CollapseWs(_)
CollapseWs(s) ==
    IF s = <<>> THEN <<>>
    ELSE IF Head(s) \in Whitespace
         THEN IF Len(s) > 1 /\ s[2] \in Whitespace
              THEN CollapseWs(Tail(s))
              ELSE <<" ">> \o CollapseWs(Tail(s))
         ELSE <<Head(s)>> \o CollapseWs(Tail(s))

RECURSIVE TrimStart(_)
TrimStart(s) ==
    IF s # <<>> /\ Head(s) \in Whitespace THEN TrimStart(Tail(s)) ELSE s

RECURSIVE TrimEnd(_)
TrimEnd(s) ==
    IF s # <<>> /\ s[Len(s)] \in Whitespace
    THEN TrimEnd(SubSeq(s, 1, Len(s) - 1))
    ELSE s

\* String.prototype.trim
trim(s) == TrimEnd(TrimStart(s))

\* the normalisation without the trim
CollapseOnly(s) == CollapseWs(s)

\* line.text.replace(/\s+/g, ' ').trim()
normalizedText(s) == trim(CollapseWs(s))

\* ------------------------------------------------------ extractTextCorpus

\* const w = item.width || 0
ItemW(item) == IF item.width = Undefined THEN 0 ELSE item.width

\* const h = (item.height != null) ? item.height : Math.max(Math.abs(tx[3]), 10)
ItemH(item) ==
    IF item.height # Undefined THEN item.height
    ELSE Max(Abs(item.d), MIN_HEIGHT)

\* { text: item.str, x, y, width: w, height: h, pageNum: i }
NewLine(item, i) ==
    [text |-> item.str, x |-> item.x, y |-> item.y,
     width |-> ItemW(item), height |-> ItemH(item), pageNum |-> i]

\* the tolerance test without Math.abs
SameLineNoAbs(cur, item) == cur.y - item.y <= LINE_TOLERANCE

\* Math.abs(currentLine.y - y) <= 3
SameLine(cur, item) == Abs(cur.y - item.y) <= LINE_TOLERANCE

\* the same-line branch with the width measured to the right edge of the new run
ExtendLineToRun(cur, item) ==
    [cur EXCEPT !.width = item.x + ItemW(item) - cur.x,
                !.text = cur.text \o <<" ">> \o item.str,
                !.height = Max(cur.height, ItemH(item))]

\* the same-line branch: extend the width, append the text, keep the max height
ExtendLine(cur, item) ==
    LET rightEdge == Max(cur.x + cur.width, item.x + ItemW(item))
    IN [cur EXCEPT !.width = rightEdge - cur.x,
                   !.text = cur.text \o <<" ">> \o item.str,
                   !.height = Max(cur.height, ItemH(item))]

\* One iteration of `for (const item of textContent.items)`.  st is
\* [cur |-> <<>> or <<currentLine>>, lines |-> the lines pushed so far].
FoldItem(st, item, i) ==
    IF st.cur = <<>>
    THEN [cur |-> <<NewLine(item, i)>>, lines |-> st.lines]
    ELSE IF SameLine(st.cur[1], item)
         THEN [cur |-> <<ExtendLine(st.cur[1], item)>>, lines |-> st.lines]
         ELSE [cur |-> <<NewLine(item, i)>>,
               lines |-> Append(st.lines, st.cur[1])]

\* if (currentLine) lines.push(currentLine)
PushLast(st) == st.lines \o st.cur

\* the clean-up loop: normalise each line's text, drop the empty ones
RECURSIVE CleanUp(_)
CleanUp(ls) ==
    IF ls = <<>> THEN <<>>
    ELSE LET t == normalizedText(Head(ls).text)
         IN (IF Len(t) > 0 THEN <<[Head(ls) EXCEPT !.text = t]>> ELSE <<>>)
            \o CleanUp(Tail(ls))

RECURSIVE FoldItems(_, _, _)
FoldItems(st, its, i) ==
    IF its = <<>> THEN st
    ELSE FoldItems(FoldItem(st, Head(its), i), Tail(its), i)

\* the body of the page loop of extractTextCorpus for page i
ExtractPage(its, i) ==
    CleanUp(PushLast(FoldItems([cur |-> <<>>, lines |-> <<>>], its, i)))

\* pdfjs textContent items: one glyph run each.  d is transform[3].
Run(str, x, y, w, h) ==
    [str |-> str, x |-> x, y |-> y, width |-> w, height |-> h, d |-> -8]

\* runs that differ in geometry
GeomRuns ==
    {Run(<<"a">>, xw[1], y, xw[2], h) :
        xw \in {<<0, 4>>, <<5, 2>>}, y \in {0, 3, 4}, h \in {Undefined, 12}}

\* runs that differ in text
TextRuns ==
    {Run(s, 0, 0, Undefined, 12) :
        s \in {<<>>, <<" ">>, <<"a", " ", "\t", "B">>}}

GlyphRuns == GeomRuns \cup TextRuns

SeqsUpTo(S, n) == UNION {[1..k -> S] : k \in 0..n}

\* ------------------------------------------- the item loop, step by step

\* lines 211-232, one item
FoldStep ==
    /\ exPc = "fold"
    /\ itemIdx <= Len(items)
    /\ fold' = FoldItem(fold, items[itemIdx], 1)
    /\ opened' = IF fold.cur = <<>> \/ Len(fold'.lines) > Len(fold.lines)
                 THEN opened \cup {itemIdx} ELSE opened
    /\ itemIdx' = itemIdx + 1
    /\ UNCHANGED <<items, exPc>>
    /\ UNCHANGED <<inputVars, mainVars, searchVars, renderVars, budgetVars>>

\* lines 233-245: push the last line, clean up, add to the corpus
FinishPage ==
    /\ exPc = "fold"
    /\ itemIdx = Len(items) + 1
    /\ searchableCorpus' = searchableCorpus \o CleanUp(PushLast(fold))
    /\ fold' = [cur |-> fold.cur, lines |-> PushLast(fold)]
    /\ exPc' = "done"
    /\ UNCHANGED <<items, itemIdx, opened>>
    /\ UNCHANGED <<fuseResults, results, topMatches, bestMatch>>
    /\ UNCHANGED <<inputVars, mainVars, renderVars, budgetVars>>

\* --------------------------------------------------- the search step of main

\* the scores Fuse gives its hits, in tenths: 0 (exact) up to the threshold
FuseScores == {0, 2, FUZZY_SEARCH_THRESHOLD}

\* the texts of a corpus
Texts(corpus) == {corpus[k].text : k \in 1..Len(corpus)}

\* Fuse's sortFn (shouldSort is left at its default): by score, ties by index
Before(i, j, sc) == sc[i] < sc[j] \/ (sc[i] = sc[j] /\ i < j)

RECURSIVE SortHits(_, _)
SortHits(S, sc) ==
    IF S = {} THEN <<>>
    ELSE LET m == CHOOSE i \in S : \A j \in S \ {i} : Before(i, j, sc)
         IN <<m>> \o SortHits(S \ {m}, sc)

\* fuse.search(searchTerm) when Fuse scores the texts in DOMAIN score within the
\* threshold: which texts and which scores is the library's business, but a
\* line's score depends on its text and the pattern alone
FuseSearch(corpus, score) ==
    LET S == {k \in 1..Len(corpus) : corpus[k].text \in DOMAIN score}
        sc == [k \in S |-> score[corpus[k].text]]
        order == SortHits(S, sc)
    IN [k \in 1..Len(order) |->
           [item |-> corpus[order[k]], score |-> sc[order[k]], refIndex |-> order[k] - 1]]

\* the test without lower-casing the line
SubstrHitCased(line, q) == includes(line.text, q)

\* line.text.toLowerCase().includes(q)
SubstrHit(line, q) == includes(toLowerCase(line.text), q)

\* the fallback: searchableCorpus.filter(...).map(line => ({ item: line, score: 0 }))
SubstrHits(corpus, term) ==
    LET q == toLowerCase(term)
        Hit(line) == SubstrHit(line, q)
        hits == SelectSeq(corpus, Hit)
    IN [k \in 1..Len(hits) |-> [item |-> hits[k], score |-> 0]]

\* let results = fuse.search(searchTerm); if (results.length === 0) results = substrHits
SearchResults(corpus, term, fuseHits) ==
    IF Len(fuseHits) = 0 THEN SubstrHits(corpus, term) ELSE fuseHits

\* results.slice(1, 6)
SliceFrom1(rs) == SubSeq(rs, 2, Min(TOP_N + 1, Len(rs)))

\* results.slice(0, 5)
Slice5(rs) == SubSeq(rs, 1, Min(TOP_N, Len(rs)))

\* bestMatch = topMatches[0], null when there are no results
BestOf(tm) == IF Len(tm) > 0 THEN <<tm[1]>> ELSE <<>>

\* ------------------------------------------------------------ DOM and renders

numPages == Len(doc)

\* getPdfUrl() without a pdfurl parameter
PDF_URL == "sample.pdf"

\* the failures a library promise rejects with
Errors ==
    {[name |-> "Error", message |-> "Invalid PDF structure", cors |-> FALSE],
     [name |-> "Error", message |-> "blocked by CORS policy", cors |-> TRUE],
     [name |-> "UnknownErrorException", message |-> "Failed to fetch", cors |-> FALSE]}

\* lines 166-170: the message shown, specialised for a CORS-style failure
ErrorMsg(e) ==
    IF e.name = "UnknownErrorException" \/ e.cors
    THEN [kind |-> "cors", text |-> PDF_URL]
    ELSE [kind |-> "message", text |-> e.message]

\* document.getElementById(`page-${p}`): the first attached wrapper, 0 if none
getElementById(ws, p) ==
    LET S == {w \in 1..Len(ws) : ws[w].attached /\ ws[w].page = p}
    IN IF S = {} THEN 0 ELSE CHOOSE w \in S : \A v \in S : w <= v

\* PDF_CONTAINER.innerHTML = ... : every wrapper leaves the document
ClearContainer(ws) == [w \in 1..Len(ws) |-> [ws[w] EXCEPT !.attached = FALSE]]

\* a renderPage call: who made it, its pageNum, whether bestMatch was passed
NewRender(by, page, bm, stage) ==
    [by |-> by, page |-> page, bm |-> bm, stage |-> stage, wrapper |-> 0,
     waited |-> stage = "queued"]

IsNav(r) == r.by \in {"button", "click"}

InFlight(r) == r.stage \in {"getPage", "render"}

Settled(r) == r.stage \in {"done", "failed"}

\* the render the renderQueue promise stood for when render r was chained to it
Pred(rs, r) ==
    LET S == {q \in 1..(r - 1) : IsNav(rs[q])}
    IN IF S = {} THEN 0 ELSE CHOOSE q \in S : \A v \in S : v <= q

\* the callback runs at once, whatever the promise it was chained to
CanStartAtOnce(rs, r) == TRUE

\* renderQueue.then(() => renderPage(...)): the callback runs once the promise
\* it was chained to has settled
CanStart(rs, r) == Pred(rs, r) = 0 \/ Settled(rs[Pred(rs, r)])

\* the renders chained to render r that start now that it has settled
StartNext(rs, r) ==
    [q \in 1..Len(rs) |->
        IF q > r /\ IsNav(rs[q]) /\ rs[q].stage = "queued" /\ Pred(rs, q) = r
        THEN [rs[q] EXCEPT !.stage = "getPage"] ELSE rs[q]]

\* the click handlers awaiting render r go on: lines 384-388
RECURSIVE ResumeClicks(_, _, _)
ResumeClicks(cs, r, ws) ==
    IF cs = <<>> THEN <<>>
    ELSE LET c == Head(cs)
             w == getElementById(ws, c.page)
         IN (IF c.render # r THEN <<c>>
             ELSE IF w # 0 THEN <<[c EXCEPT !.render = 0, !.wrapper = w]>>
             ELSE <<>>)
            \o ResumeClicks(Tail(cs), r, ws)

\* a fill loop that ends after the page it has just rendered
NextFillNone(i, matchPage, n) == 0

\* the page the fill loop of lines 146-149 renders after page i, 0 if none
NextFill(i, matchPage, n) ==
    LET S == {j \in (i + 1)..n : j # matchPage}
    IN IF S = {} THEN 0 ELSE CHOOSE j \in S : \A v \in S : j <= v

\* ------------------------------------------------------- the page-number input

\* parseInt's NaN
NaN == -999

DigitChars == <<"0", "1", "2", "3", "4", "5", "6", "7", "8", "9">>

IsDigit(c) == \E d \in 1..10 : DigitChars[d] = c

DigitVal(c) == (CHOOSE d \in 1..10 : DigitChars[d] = c) - 1

\* the value of the longest prefix of digits, acc being the value so far
RECURSIVE ParseDigits(_, _)
ParseDigits(s, acc) ==
    IF s = <<>> \/ ~IsDigit(Head(s)) THEN acc
    ELSE ParseDigits(Tail(s), 10 * acc + DigitVal(Head(s)))

\* parseInt(s, 10): leading whitespace, an optional sign, then digits
parseInt(s) ==
    LET t == TrimStart(s)
        neg == t # <<>> /\ Head(t) = "-"
        u == IF t # <<>> /\ Head(t) \in {"-", "+"} THEN Tail(t) ELSE t
    IN IF u = <<>> \/ ~IsDigit(Head(u)) THEN NaN
       ELSE IF neg THEN -ParseDigits(u, 0) ELSE ParseDigits(u, 0)

RECURSIVE NatToString(_)
NatToString(n) ==
    IF n < 10 THEN <<DigitChars[n + 1]>>
    ELSE NatToString(n \div 10) \o <<DigitChars[(n % 10) + 1]>>

\* String(n)
String(n) ==
    IF n = NaN THEN <<"N", "a", "N">>
    ELSE IF n < 0 THEN <<"-">> \o NatToString(-n)
    ELSE NatToString(n)

\* n + k in floating point: NaN stays NaN
Plus(n, k) == IF n = NaN THEN NaN ELSE n + k

\* const clamp = (n) => Math.min(Math.max(n, 1), pdf.numPages)
clamp(n) == IF n = NaN THEN NaN ELSE Min(Max(n, 1), numPages)

\* const getVal = () => clamp(parseInt(PAGE_NUMBER_INPUT.value || '1', 10))
getVal == clamp(parseInt(IF inputVal = <<>> THEN <<"1">> ELSE inputVal))

\* what the user types into the page-number input
InputStrings == {<<>>, <<"x">>, <<"9">>}

\* ------------------------------------------------ continuations of main

\* a microtask of main is pending: no event or promise callback runs before it
Busy == mainPc = "search"

\* the catch block of main, lines 163-173
Catch(step, e, rs, ws) ==
    /\ mainPc' = "error"
    /\ status' = <<"Error", ErrorMsg(e)>>
    /\ errorPanel' = <<[msg |-> ErrorMsg(e), url |-> PDF_URL]>>
    /\ errorCount' = errorCount + 1
    /\ caught' = Append(caught, [step |-> step, error |-> e])
    /\ renders' = rs
    /\ wrappers' = ClearContainer(ws)
    /\ UNCHANGED <<exI, bgI, gPdf, clicks, logged>>

\* lines 135-150: after `await renderPage(pdf, matchPage, bestMatch)`
MatchRendered(rs, ws) ==
    LET matchPage == bestMatch[1].item.pageNum
    IN /\ status' = IF getElementById(ws, matchPage) # 0
                    THEN <<"FoundOnPage", matchPage, bestMatch[1].score>>
                    ELSE status
       /\ mainPc' = "timer"
       /\ renders' = rs
       /\ wrappers' = ws
       /\ UNCHANGED <<exI, bgI, gPdf, errorPanel, errorCount,
                      caught, clicks, logged>>

\* lines 153-160: after `await renderPage(pdf, i, null)`
SeqRendered(r, rs, ws) ==
    /\ IF rs[r].page < numPages
       THEN /\ renders' = Append(rs, NewRender("seq", rs[r].page + 1, FALSE, "getPage"))
            /\ bgI' = rs[r].page + 1
            /\ UNCHANGED <<mainPc, status>>
       ELSE /\ renders' = rs
            /\ mainPc' = "done"
            /\ status' = IF searchTerm # <<>>
                         THEN <<"NoMatchDisplaying", searchTerm>>
                         ELSE <<"LoadedNoTerm">>
            /\ UNCHANGED bgI
    /\ wrappers' = ws
    /\ UNCHANGED <<exI, gPdf, errorPanel, errorCount,
                   caught, clicks, logged>>

\* lines 146-149: after `await renderPage(pdf, i, bestMatch)` in the timer callback
BgRendered(r, rs, ws) ==
    LET nxt == NextFill(rs[r].page, bestMatch[1].item.pageNum, numPages)
    IN /\ IF nxt # 0
          THEN /\ renders' = Append(rs, NewRender("bg", nxt, TRUE, "getPage"))
               /\ bgI' = nxt
               /\ UNCHANGED mainPc
          ELSE /\ renders' = rs
               /\ mainPc' = "done"
               /\ UNCHANGED bgI
       /\ wrappers' = ws
       /\ UNCHANGED <<exI, gPdf, status, errorPanel, errorCount,
                      caught, clicks, logged>>

\* the timer callback's promise rejects: nothing awaits it, the loop is over
BgAborted(rs, ws) ==
    /\ mainPc' = "bgAborted"
    /\ renders' = rs
    /\ wrappers' = ws
    /\ UNCHANGED <<exI, bgI, gPdf, status, errorPanel, errorCount,
                   caught, clicks, logged>>

\* line 316-317: the chained promise settles; .catch logs a failure
NavSettled(r, ok, rs, ws) ==
    /\ renders' = StartNext(rs, r)
    /\ wrappers' = ws
    /\ clicks' = ResumeClicks(clicks, r, ws)
    /\ logged' = IF ok THEN logged ELSE logged \cup {r}
    /\ UNCHANGED mainVars

\* what runs when renderPage call r returns
RenderReturned(r, rs, ws) ==
    CASE rs[r].by = "match" -> MatchRendered(rs, ws)
      [] rs[r].by = "seq" -> SeqRendered(r, rs, ws)
      [] rs[r].by = "bg" -> BgRendered(r, rs, ws)
      [] OTHER -> NavSettled(r, TRUE, rs, ws)

\* a renderPage call that throws is treated as one that returned
RenderThrewIgnored(r, e, rs, ws) ==
    IF IsNav(rs[r]) THEN NavSettled(r, FALSE, rs, ws) ELSE RenderReturned(r, rs, ws)

\* what runs when renderPage call r throws e
RenderThrew(r, e, rs, ws) ==
    CASE rs[r].by = "match" -> Catch("match", e, rs, ws)
      [] rs[r].by = "seq" -> Catch("seq", e, rs, ws)
      [] rs[r].by = "bg" -> BgAborted(rs, ws)
      [] OTHER -> NavSettled(r, FALSE, rs, ws)

\* ------------------------------------------------------------ main, by await

\* line 73: pdfjsLib.getDocument(PDF_URL).promise resolves; lines 74-83
LoadResolve ==
    /\ mainPc = "load"
    /\ gPdf' = TRUE
    /\ status' = <<"Extracting">>
    /\ mainPc' = "extract"
    /\ exI' = 1
    /\ UNCHANGED <<bgI, errorPanel, errorCount, caught>>
    /\ UNCHANGED <<inputVars, searchVars, renderVars, budgetVars, foldVars>>

\* line 73: the promise rejects
LoadReject ==
    /\ mainPc = "load"
    /\ failures < MaxFailures
    /\ failures' = failures + 1
    /\ \E e \in Errors :
          /\ raised' = Append(raised, "load")
          /\ Catch("load", e, renders, wrappers)
    /\ UNCHANGED <<inputVars, searchVars, renderedPages, events, foldVars>>

\* lines 204-205: pdf.getPage(i) and page.getTextContent have resolved (nothing
\* changes between the two awaits); lines 208-245 for page i, then the next
\* page or the return to main
ExtractPageDone ==
    /\ mainPc = "extract"
    /\ searchableCorpus' = searchableCorpus \o ExtractPage(doc[exI], exI)
    /\ IF exI < numPages
       THEN /\ exI' = exI + 1
            /\ UNCHANGED mainPc
       ELSE /\ mainPc' = "search"
            /\ UNCHANGED exI
    /\ UNCHANGED <<bgI, gPdf, status, errorPanel, errorCount, caught>>
    /\ UNCHANGED <<fuseResults, results, topMatches, bestMatch>>
    /\ UNCHANGED <<inputVars, renderVars, budgetVars, foldVars>>

\* line 204 or 205: the promise rejects; extractTextCorpus has no try
ExtractReject ==
    /\ mainPc = "extract"
    /\ failures < MaxFailures
    /\ failures' = failures + 1
    /\ \E e \in Errors :
          /\ raised' = Append(raised, "extract")
          /\ Catch("extract", e, renders, wrappers)
    /\ UNCHANGED <<inputVars, searchVars, renderedPages, events, foldVars>>

\* lines 84-133 and 152-154: the search, the result list, the first renderPage call
Search ==
    /\ mainPc = "search"
    /\ \E T \in SUBSET Texts(searchableCorpus) : \E score \in [T -> FuseScores] :
        LET fr == IF searchTerm = <<>> THEN <<>>
                  ELSE FuseSearch(searchableCorpus, score)
            res == IF searchTerm = <<>> THEN <<>>
                   ELSE SearchResults(searchableCorpus, searchTerm, fr)
            tm == Slice5(res)
            bm == BestOf(tm)
        IN /\ fuseResults' = fr
           /\ results' = res
           /\ topMatches' = tm
           /\ bestMatch' = bm
           /\ status' = IF searchTerm = <<>> THEN <<"Extracted", Len(searchableCorpus)>>
                        ELSE IF Len(res) > 0 THEN <<"Found", Len(res), Len(tm)>>
                        ELSE <<"NoMatch", searchTerm>>
           /\ IF bm # <<>>
              THEN /\ renders' = Append(renders,
                                    NewRender("match", bm[1].item.pageNum, TRUE, "getPage"))
                   /\ mainPc' = "match"
                   /\ UNCHANGED bgI
              ELSE /\ renders' = Append(renders, NewRender("seq", 1, FALSE, "getPage"))
                   /\ mainPc' = "seq"
                   /\ bgI' = 1
    /\ UNCHANGED <<exI, gPdf, errorPanel, errorCount, caught>>
    /\ UNCHANGED <<searchableCorpus, wrappers, renderedPages, clicks, logged>>
    /\ UNCHANGED <<inputVars, budgetVars, foldVars>>

\* lines 145-148: the timer fires; the fill loop makes its first renderPage call
BgTimer ==
    /\ mainPc = "timer"
    /\ LET nxt == NextFill(0, bestMatch[1].item.pageNum, numPages)
       IN IF nxt # 0
          THEN /\ renders' = Append(renders, NewRender("bg", nxt, TRUE, "getPage"))
               /\ bgI' = nxt
               /\ mainPc' = "bg"
          ELSE /\ mainPc' = "done"
               /\ UNCHANGED <<renders, bgI>>
    /\ UNCHANGED <<exI, gPdf, status, errorPanel, errorCount,
                   caught>>
    /\ UNCHANGED <<wrappers, renderedPages, clicks, logged>>
    /\ UNCHANGED <<inputVars, searchVars, budgetVars, foldVars>>

\* ------------------------------------------------------- renderPage, by await

\* line 255 resolves; lines 256-285: the wrapper is built and appended
GetPageResolve(r) ==
    /\ ~Busy
    /\ renders[r].stage = "getPage"
    /\ renders[r].page \in 1..numPages
    /\ wrappers' = Append(wrappers, [page |-> renders[r].page, hl |-> 0, attached |-> TRUE])
    /\ renders' = [renders EXCEPT ![r].stage = "render", ![r].wrapper = Len(wrappers) + 1]
    /\ UNCHANGED <<renderedPages, clicks, logged>>
    /\ UNCHANGED <<inputVars, mainVars, searchVars, budgetVars, foldVars>>

\* line 255 rejects: always for a page number outside 1..numPages
GetPageReject(r) ==
    /\ ~Busy
    /\ renders[r].stage = "getPage"
    /\ IF renders[r].page \in 1..numPages
       THEN failures < MaxFailures /\ failures' = failures + 1
       ELSE UNCHANGED failures
    /\ \E e \in Errors :
          /\ raised' = Append(raised, renders[r].by)
          /\ RenderThrew(r, e, [renders EXCEPT ![r].stage = "failed"], wrappers)
    /\ UNCHANGED <<inputVars, searchVars, renderedPages, events, foldVars>>

\* line 285 or the Promise.all of line 288 rejects
RenderReject(r) ==
    /\ ~Busy
    /\ renders[r].stage = "render"
    /\ failures < MaxFailures
    /\ failures' = failures + 1
    /\ \E e \in Errors :
          /\ raised' = Append(raised, renders[r].by)
          /\ RenderThrew(r, e, [renders EXCEPT ![r].stage = "failed"], wrappers)
    /\ UNCHANGED <<inputVars, searchVars, renderedPages, events, foldVars>>

\* lines 285 and 288 have resolved (nothing changes between the two awaits);
\* lines 303-309, then the caller goes on
RenderResolve(r) ==
    /\ ~Busy
    /\ renders[r].stage = "render"
    /\ renderedPages' = renderedPages \cup {renders[r].page}
    /\ LET w == renders[r].wrapper
           hit == renders[r].bm /\ bestMatch # <<>>
                  /\ bestMatch[1].item.pageNum = renders[r].page
           ws == IF hit THEN [wrappers EXCEPT ![w].hl = @ + 1] ELSE wrappers
       IN RenderReturned(r, [renders EXCEPT ![r].stage = "done"], ws)
    /\ UNCHANGED <<inputVars, searchVars, budgetVars, foldVars>>

\* ------------------------------------------------------------- user events

\* scrollToPage(n) up to its first await: ensurePageRendered, lines 313-317.
\* by is "button" or "click"; a click handler stays suspended behind it.
ScrollToPage(n, by) ==
    LET w == getElementById(wrappers, n)
        queued == Append(renders, NewRender(by, n, FALSE, "queued"))
        r == Len(queued)
        chained == IF CanStart(queued, r)
                   THEN [queued EXCEPT ![r].stage = "getPage", ![r].waited = FALSE]
                   ELSE queued
    IN /\ renders' = IF w # 0 THEN renders ELSE chained
       /\ clicks' = IF by # "click" THEN clicks
                    ELSE Append(clicks, [page |-> n,
                                         render |-> IF w # 0 THEN 0 ELSE r,
                                         wrapper |-> w])

UserEvent ==
    /\ ~Busy
    /\ gPdf
    /\ events < MaxEvents
    /\ events' = events + 1

\* the user edits the page-number input
TypeInput ==
    /\ ~Busy
    /\ events < MaxEvents
    /\ events' = events + 1
    /\ \E v \in InputStrings : inputVal' = v
    /\ UNCHANGED <<doc, searchTerm, failures, raised>>
    /\ UNCHANGED <<mainVars, searchVars, renderVars, foldVars>>

\* line 335
ClickPrev ==
    /\ UserEvent
    /\ LET n == getVal
       IN /\ inputVal' = String(clamp(Plus(n, -1)))
          /\ ScrollToPage(Plus(n, -1), "button")
    /\ UNCHANGED <<doc, searchTerm, failures, raised, wrappers, renderedPages, logged>>
    /\ UNCHANGED <<mainVars, searchVars, foldVars>>

\* line 336
ClickNext ==
    /\ UserEvent
    /\ LET n == getVal
       IN /\ inputVal' = String(clamp(Plus(n, 1)))
          /\ ScrollToPage(Plus(n, 1), "button")
    /\ UNCHANGED <<doc, searchTerm, failures, raised, wrappers, renderedPages, logged>>
    /\ UNCHANGED <<mainVars, searchVars, foldVars>>

\* line 337
ClickGo ==
    /\ UserEvent
    /\ ScrollToPage(getVal, "button")
    /\ UNCHANGED <<inputVars, failures, raised, wrappers, renderedPages, logged>>
    /\ UNCHANGED <<mainVars, searchVars, foldVars>>

\* lines 338-343: Enter in the page-number input
KeyEnter ==
    /\ UserEvent
    /\ ScrollToPage(getVal, "button")
    /\ UNCHANGED <<inputVars, failures, raised, wrappers, renderedPages, logged>>
    /\ UNCHANGED <<mainVars, searchVars, foldVars>>

\* lines 372-374: a click on entry k of the result list
ClickResult(k) ==
    /\ UserEvent
    /\ k \in 1..Len(topMatches)
    /\ ScrollToPage(topMatches[k].item.pageNum, "click")
    /\ UNCHANGED <<inputVars, failures, raised, wrappers, renderedPages, logged>>
    /\ UNCHANGED <<mainVars, searchVars, foldVars>>

Remove(sq, k) == SubSeq(sq, 1, k - 1) \o SubSeq(sq, k + 1, Len(sq))

\* a highlightMatch that replaces the highlights of the wrapper by the new one
HighlightReplaces(c) ==
    /\ ~Busy
    /\ clicks[c].render = 0
    /\ wrappers' = [wrappers EXCEPT ![clicks[c].wrapper].hl = 1]
    /\ clicks' = Remove(clicks, c)
    /\ UNCHANGED <<renders, renderedPages, logged>>
    /\ UNCHANGED <<inputVars, mainVars, searchVars, budgetVars, foldVars>>

\* line 388 resolves in click handler c; lines 389-390: the highlight is appended
HighlightResolve(c) ==
    /\ ~Busy
    /\ clicks[c].render = 0
    /\ wrappers' = [wrappers EXCEPT ![clicks[c].wrapper].hl = @ + 1]
    /\ clicks' = Remove(clicks, c)
    /\ UNCHANGED <<renders, renderedPages, logged>>
    /\ UNCHANGED <<inputVars, mainVars, searchVars, budgetVars, foldVars>>

\* line 388 rejects: the handler ends
HighlightReject(c) ==
    /\ ~Busy
    /\ clicks[c].render = 0
    /\ failures < MaxFailures
    /\ failures' = failures + 1
    /\ clicks' = Remove(clicks, c)
    /\ raised' = Append(raised, "highlight")
    /\ UNCHANGED <<renders, wrappers, renderedPages, logged, events>>
    /\ UNCHANGED <<inputVars, mainVars, searchVars, foldVars>>

\* ------------------------------------------------------------ specifications

FoldIdle ==
    /\ items = <<>>
    /\ itemIdx = 1
    /\ fold = [cur |-> <<>>, lines |-> <<>>]
    /\ opened = {}
    /\ exPc = "off"

RenderIdle ==
    /\ renders = <<>>
    /\ wrappers = <<>>
    /\ renderedPages = {}
    /\ clicks = <<>>
    /\ logged = {}
    /\ events = 0
    /\ failures = 0
    /\ raised = <<>>

NoError ==
    /\ errorPanel = <<>>
    /\ errorCount = 0
    /\ caught = <<>>

\* the documents of a session: one line of text on every page, or on every
\* page but the first
SessionDocs ==
    LET text == <<Run(<<"a">>, 0, 0, 4, 12)>>
    IN {[p \in 1..NumPages |-> text],
        [p \in 1..NumPages |-> IF p = 1 THEN <<>> ELSE text]}

\* the state when main suspends at line 73
Init ==
    /\ doc \in SessionDocs
    /\ searchTerm \in {<<>>, <<"a">>}
    /\ inputVal = <<"1">>
    /\ mainPc = "load"
    /\ exI = 0
    /\ bgI = 0
    /\ gPdf = FALSE
    /\ searchableCorpus = <<>>
    /\ fuseResults = <<>>
    /\ results = <<>>
    /\ topMatches = <<>>
    /\ bestMatch = <<>>
    /\ status = IF searchTerm = <<>> THEN <<"Ready">> ELSE <<"Searching", searchTerm>>
    /\ NoError
    /\ RenderIdle
    /\ FoldIdle

Next ==
    \/ LoadResolve
    \/ LoadReject
    \/ ExtractPageDone
    \/ ExtractReject
    \/ Search
    \/ BgTimer
    \/ \E r \in 1..Len(renders) : GetPageResolve(r)
    \/ \E r \in 1..Len(renders) : GetPageReject(r)
    \/ \E r \in 1..Len(renders) : RenderReject(r)
    \/ \E r \in 1..Len(renders) : RenderResolve(r)
    \/ ClickPrev
    \/ ClickNext
    \/ ClickGo
    \/ KeyEnter
    \/ \E k \in 1..TOP_N : ClickResult(k)
    \/ \E c \in 1..Len(clicks) : HighlightResolve(c)
    \/ \E c \in 1..Len(clicks) : HighlightReject(c)

Spec == Init /\ [][Next]_vars

\* main is suspended at line 83, in extractTextCorpus
Extracting ==
    /\ searchTerm = <<>>
    /\ inputVal = <<"1">>
    /\ mainPc = "extract"
    /\ exI = 1
    /\ bgI = 0
    /\ gPdf = TRUE
    /\ fuseResults = <<>>
    /\ results = <<>>
    /\ topMatches = <<>>
    /\ bestMatch = <<>>
    /\ status = <<"Extracting">>
    /\ NoError
    /\ RenderIdle

\* ---- the navigation lane: the buttons and the renders they chain, while main
\* is suspended in extractTextCorpus

InitNav ==
    /\ doc \in SessionDocs
    /\ FoldIdle
    /\ Extracting
    /\ searchableCorpus = <<>>

NextNav ==
    \/ \E r \in 1..Len(renders) : GetPageResolve(r)
    \/ \E r \in 1..Len(renders) : GetPageReject(r)
    \/ \E r \in 1..Len(renders) : RenderReject(r)
    \/ \E r \in 1..Len(renders) : RenderResolve(r)
    \/ ClickPrev
    \/ ClickNext
    \/ ClickGo
    \/ KeyEnter
    \/ TypeInput

SpecNav == InitNav /\ [][NextNav]_vars

\* ---- sessions without user events: main and its background fill

NextPipeline ==
    \/ LoadResolve
    \/ LoadReject
    \/ ExtractPageDone
    \/ ExtractReject
    \/ Search
    \/ BgTimer
    \/ \E r \in 1..Len(renders) : GetPageResolve(r)
    \/ \E r \in 1..Len(renders) : GetPageReject(r)
    \/ \E r \in 1..Len(renders) : RenderReject(r)
    \/ \E r \in 1..Len(renders) : RenderResolve(r)

SpecPipeline == Init /\ [][NextPipeline]_vars

\* ---- sessions in which every library promise settles as the library
\* documents: pdf.getPage rejects for a page number outside 1..numPages and
\* nothing else rejects

\* line 255 rejects because the page number is not a page of the document
GetPageInvalid(r) ==
    /\ renders[r].page \notin 1..numPages
    /\ GetPageReject(r)

NextResolving ==
    \/ LoadResolve
    \/ ExtractPageDone
    \/ Search
    \/ BgTimer
    \/ \E r \in 1..Len(renders) : GetPageResolve(r)
    \/ \E r \in 1..Len(renders) : GetPageInvalid(r)
    \/ \E r \in 1..Len(renders) : RenderResolve(r)
    \/ ClickPrev
    \/ ClickNext
    \/ \E k \in 1..TOP_N : ClickResult(k)
    \/ \E c \in 1..Len(clicks) : HighlightResolve(c)

\* every pending promise settles and the timer of line 145 fires; the user
\* events are under no obligation
Settling ==
    /\ WF_vars(LoadResolve)
    /\ WF_vars(ExtractPageDone)
    /\ WF_vars(Search)
    /\ WF_vars(BgTimer)
    /\ WF_vars(\E r \in 1..Len(renders) : GetPageResolve(r))
    /\ WF_vars(\E r \in 1..Len(renders) : GetPageInvalid(r))
    /\ WF_vars(\E r \in 1..Len(renders) : RenderResolve(r))
    /\ WF_vars(\E c \in 1..Len(clicks) : HighlightResolve(c))

\* a document with text on every page
InitResolving ==
    /\ Init
    /\ \A p \in 1..NumPages : doc[p] # <<>>

SpecResolving == InitResolving /\ [][NextResolving]_vars /\ Settling

\* ---- sessions in which the user only clicks result entries

NextClicks ==
    \/ LoadResolve
    \/ LoadReject
    \/ ExtractPageDone
    \/ ExtractReject
    \/ Search
    \/ BgTimer
    \/ \E r \in 1..Len(renders) : GetPageResolve(r)
    \/ \E r \in 1..Len(renders) : GetPageReject(r)
    \/ \E r \in 1..Len(renders) : RenderReject(r)
    \/ \E r \in 1..Len(renders) : RenderResolve(r)
    \/ \E k \in 1..TOP_N : ClickResult(k)
    \/ \E c \in 1..Len(clicks) : HighlightResolve(c)
    \/ \E c \in 1..Len(clicks) : HighlightReject(c)

SpecClicks == InitResolving /\ [][NextClicks]_vars

\* ---- the item loop of extractTextCorpus on one page of glyph runs

InitExtract ==
    /\ items \in SeqsUpTo(GlyphRuns, MaxRuns)
    /\ doc = <<items>>
    /\ itemIdx = 1
    /\ fold = [cur |-> <<>>, lines |-> <<>>]
    /\ opened = {}
    /\ exPc = "fold"
    /\ searchableCorpus = <<>>
    /\ Extracting

NextExtract == FoldStep \/ FinishPage

SpecExtract == InitExtract /\ [][NextExtract]_vars

\* ---- the search step of main on a corpus of up to MaxLines lines

SearchTexts == {<<"A", "b">>, <<"b">>, <<"a">>}

SearchTerms == {<<"A">>, <<"b">>}

\* a page of n lines, one glyph run each, top to bottom
SearchPage(texts) ==
    [k \in 1..Len(texts) |-> Run(texts[k], 0, 10 * (Len(texts) + 1 - k), 4, 12)]

\* main has extracted the corpus and is about to run line 84
InitSearch ==
    /\ \E texts \in SeqsUpTo(SearchTexts, MaxLines) : doc = <<SearchPage(texts)>>
    /\ searchTerm \in SearchTerms
    /\ searchableCorpus = ExtractPage(doc[1], 1)
    /\ inputVal = <<"1">>
    /\ mainPc = "search"
    /\ exI = 1
    /\ bgI = 0
    /\ gPdf = TRUE
    /\ fuseResults = <<>>
    /\ results = <<>>
    /\ topMatches = <<>>
    /\ bestMatch = <<>>
    /\ status = <<"Extracting">>
    /\ NoError
    /\ RenderIdle
    /\ FoldIdle

NextSearch == Search

SpecSearch == InitSearch /\ [][NextSearch]_vars

\* =================================================================== claims

\* ---- helpers of the claims, stated without the model's operators

\* two characters that differ at most in case
SameLetter(c, d) == c = d \/ {c, d} = {"a", "A"} \/ {c, d} = {"b", "B"}

\* text contains q as a substring, ignoring case
ContainsNoCase(text, q) ==
    \E off \in 0..(Len(text) - Len(q)) :
        \A n \in 1..Len(q) : SameLetter(text[off + n], q[n])

\* the corpus positions of the lines that contain the search term
SubstringLines ==
    {k \in 1..Len(searchableCorpus) :
        ContainsNoCase(searchableCorpus[k].text, searchTerm)}

\* the n-th smallest member of a set of numbers
NthOf(S, n) == CHOOSE k \in S : Cardinality({j \in S : j < k}) = n - 1

Searched == mainPc \in {"match", "seq"}

\* Fuse found nothing for a non-empty query
FellBack == Searched /\ searchTerm # <<>> /\ fuseResults = <<>>

\* the position of a surfaced line in the corpus
PosOf(line) == CHOOSE k \in 1..Len(searchableCorpus) : searchableCorpus[k] = line

\* entry a ranks before entry b: lower score, ties by corpus position
RanksBefore(a, b) ==
    a.score < b.score \/ (a.score = b.score /\ PosOf(a.item) < PosOf(b.item))

Entries(sq) == {sq[k] : k \in 1..Len(sq)}

\* C8 (as claimed): whenever Fuse returns nothing for a non-empty query, every
\* corpus line that contains the query (ignoring case) is among the displayed
\* matches with score 0, however many such lines there are.
C8_AllSubstringLinesSurfaced ==
    FellBack =>
        \A k \in SubstringLines :
            \E j \in 1..Len(topMatches) :
                topMatches[j].item = searchableCorpus[k] /\ topMatches[j].score = 0

\* C8 (amended): whenever Fuse returns nothing for a non-empty query, the
\* displayed matches are the first 5 corpus lines that contain the query
\* (ignoring case), in corpus order, each with score 0 -- all of them when
\* there are at most 5.
C8_FirstFiveSubstringLines ==
    FellBack =>
        /\ Len(topMatches) = Min(TOP_N, Cardinality(SubstringLines))
        /\ \A j \in 1..Len(topMatches) :
              /\ topMatches[j].item = searchableCorpus[NthOf(SubstringLines, j)]
              /\ topMatches[j].score = 0

\* the fallback ran on a corpus with more than 5 lines containing the query
C8_Witness == FellBack /\ Cardinality(SubstringLines) > TOP_N

\* C9: whenever the result set (Fuse's or the fallback's) has at least 5
\* entries, exactly 5 are surfaced, they are results, they are in ascending
\* score order with ties in corpus order, every result left out ranks after
\* all of them, and the primary match is the first of them.
C9_TopFive ==
    (Searched /\ Len(results) >= TOP_N) =>
        /\ Len(topMatches) = TOP_N
        /\ Entries(topMatches) \subseteq Entries(results)
        /\ \A j \in 1..(TOP_N - 1) : RanksBefore(topMatches[j], topMatches[j + 1])
        /\ \A e \in Entries(results) \ Entries(topMatches) :
              \A j \in 1..TOP_N : RanksBefore(topMatches[j], e)
        /\ bestMatch = <<topMatches[1]>>
        /\ mainPc = "match"
        /\ renders[Len(renders)].page = topMatches[1].item.pageNum

\* Fuse returned more than 5 hits with different scores
C9_Witness ==
    /\ Searched
    /\ Len(fuseResults) > TOP_N
    /\ \E a, b \in Entries(fuseResults) : a.score # b.score

\* ---- the item loop

\* the items folded so far
Folded == 1..(itemIdx - 1)

\* the item that opened the line item j was folded into or closed
OpenerOf(j) == CHOOSE k \in opened : k < j /\ \A m \in opened : m < j => m <= k

\* C10 (as claimed): a new line starts at glyph run j exactly when the vertical
\* delta between run j and run j-1 exceeds 3 units.
C10_SplitOnConsecutiveDelta ==
    exPc # "off" =>
        \A j \in Folded \ {1} :
            j \in opened <=> Abs(items[j].y - items[j - 1].y) > LINE_TOLERANCE

\* C10 (amended): a new line starts at glyph run j exactly when the vertical
\* delta between run j and the run that opened the current line exceeds 3
\* units; a sequence whose runs all lie within 3 units of the first run yields
\* a single line.
C10_SplitOnDeltaToLineStart ==
    exPc # "off" =>
        /\ (Folded # {} => 1 \in opened)
        /\ \A j \in Folded \ {1} :
              j \in opened <=> Abs(items[j].y - items[OpenerOf(j)].y) > LINE_TOLERANCE
        /\ (exPc = "done" /\ items # <<>> /\
            (\A j \in Folded : Abs(items[j].y - items[1].y) <= LINE_TOLERANCE))
              => Len(fold.lines) = 1

\* a page was folded on which a run within 3 units of its predecessor opened a line
C10_Witness ==
    /\ exPc = "done"
    /\ \E j \in Folded \ {1} :
          /\ j \in opened
          /\ Abs(items[j].y - items[j - 1].y) <= LINE_TOLERANCE

\* ---- the session

RenderIds == 1..Len(renders)

NavIds == {r \in RenderIds : IsNav(renders[r])}

\* the wrappers in the container with id page-k
Attached(k) == {w \in 1..Len(wrappers) : wrappers[w].attached /\ wrappers[w].page = k}

\* the renderPage calls the click handlers have started for page k
ClickStarted(k) ==
    {r \in RenderIds : renders[r].by = "click" /\ renders[r].page = k
                       /\ renders[r].stage # "queued"}

\* the wrappers with id page-k that the renders started by clicks have put in
\* the container
ClickWrappers(k) ==
    {w \in Attached(k) : \E r \in ClickStarted(k) : renders[r].wrapper = w}

\* C1: as long as no library call has failed, for every page k all the clicks
\* on result entries of page k together start at most one renderPage for page
\* k, and these renders put at most one element with id page-k in the
\* container.
C1_OneRenderPerClickedPage ==
    failures = 0 =>
        \A k \in 1..numPages :
            /\ Cardinality(ClickStarted(k)) <= 1
            /\ Cardinality(ClickWrappers(k)) <= 1

\* C2: a renderPage started by main or its background fill and a renderPage
\* started by navigation for a page of the document are never in flight at the
\* same time.
C2_FillAndNavigationSerialized ==
    \A r, q \in RenderIds :
        ~(/\ ~IsNav(renders[r]) /\ InFlight(renders[r])
          /\ IsNav(renders[q]) /\ InFlight(renders[q])
          /\ renders[q].page \in 1..numPages)

\* C3: among the renders enqueued by ensurePageRendered at most one is in
\* flight, and one of them has started only if every one enqueued before it
\* has finished, with success or with a failure.
C3_NavigationRendersSerialFifo ==
    /\ Cardinality({r \in NavIds : InFlight(renders[r])}) <= 1
    /\ \A r, q \in NavIds :
          (r < q /\ renders[q].stage # "queued") => Settled(renders[r])

\* a render that had to wait in the queue has started although the render
\* enqueued before it failed
C3_Witness ==
    \E r, q \in NavIds :
        /\ r < q /\ renders[r].stage = "failed"
        /\ renders[q].waited /\ renders[q].stage # "queued"

\* C4: when the search yields a primary match on page m, no render of another
\* page of the document has started unless main's render of page m has
\* completed.
C4_MatchedPageRenderedFirst ==
    bestMatch # <<>> =>
        \A r \in RenderIds :
            (/\ renders[r].page \in 1..numPages
             /\ renders[r].page # bestMatch[1].item.pageNum
             /\ renders[r].stage # "queued")
                => \E q \in RenderIds : renders[q].by = "match" /\ Settled(renders[q])

\* C5: a renderPage failure during a navigation render is logged and the
\* navigation queue goes on with the renders enqueued after it; after a
\* renderPage failure during the background fill, the fill goes on to the next
\* remaining page.
C5_RenderFailuresLoggedAndSkipped ==
    \A r \in RenderIds :
        renders[r].stage = "failed" =>
            /\ IsNav(renders[r]) => r \in logged
            /\ IsNav(renders[r]) =>
                  \A q \in NavIds : Pred(renders, q) = r => renders[q].stage # "queued"
            /\ (renders[r].by = "bg"
                /\ NextFill(renders[r].page, bestMatch[1].item.pageNum, numPages) # 0)
                  => \E q \in RenderIds : q > r /\ renders[q].by = "bg"

\* C6: a failure of pdf.getPage(i) or page.getTextContent during
\* extractTextCorpus does not put the pipeline in the error state: extraction
\* goes on with the next pages.
C6_ExtractionNeverFails ==
    (\E n \in 1..Len(raised) : raised[n] = "extract") => mainPc # "error"

PipelineSteps == {"load", "extract", "match", "seq", "bg"}

\* the failures raised by steps of S, in order
RaisedBy(S) == SelectSeq(raised, LAMBDA st : st \in S)

CaughtSteps == [n \in 1..Len(caught) |-> caught[n].step]

\* what the error state shows for the failure e it caught: the message (the
\* CORS text in its place for a CORS-style failure) and the document location
ShowsFailure(e) ==
    /\ mainPc = "error"
    /\ errorCount = 1
    /\ Len(errorPanel) = 1
    /\ status[1] = "Error"
    /\ status[2] = errorPanel[1].msg
    /\ errorPanel[1].url = PDF_URL
    /\ IF e.name = "UnknownErrorException" \/ e.cors
       THEN errorPanel[1].msg.kind = "cors"
       ELSE errorPanel[1].msg = [kind |-> "message", text |-> e.message]

\* no step of main is run again after it failed: a failed render of main is
\* the last render main has started
NoRetry ==
    \A r, q \in RenderIds :
        (r < q /\ ~IsNav(renders[r]) /\ renders[r].stage = "failed") => IsNav(renders[q])

\* C7 (as claimed): every failure raised during document load, extraction, the
\* render of the matched page, the sequential render or the background fill is
\* caught by the top-level handler, which puts the session in the error state
\* exactly once, showing the failure; no failed step is run again.
C7_EveryPipelineFailureCaught ==
    /\ RaisedBy(PipelineSteps) = CaughtSteps
    /\ Len(caught) <= 1
    /\ errorCount = Len(caught)
    /\ (mainPc = "error") = (Len(caught) = 1)
    /\ Len(caught) = 1 => ShowsFailure(caught[1].error)
    /\ NoRetry

\* C7 (amended): every failure raised during document load, extraction, the
\* render of the matched page or the sequential render is caught by the
\* top-level handler, which puts the session in the error state exactly once,
\* showing the failure (the CORS text for a CORS-style failure); no failed step
\* is run again; a failure raised in the background fill does not reach the
\* top-level handler and does not put the session in the error state.
C7_FailuresBeforeTheFillCaught ==
    /\ RaisedBy(PipelineSteps \ {"bg"}) = CaughtSteps
    /\ Len(caught) <= 1
    /\ errorCount = Len(caught)
    /\ (mainPc = "error") = (Len(caught) = 1)
    /\ Len(caught) = 1 => ShowsFailure(caught[1].error)
    /\ NoRetry
    /\ RaisedBy({"bg"}) # <<>> => (mainPc # "error" /\ errorPanel = <<>>)

\* the sequential render failed on a later page and was caught
C7_Witness ==
    /\ mainPc = "error"
    /\ \E r \in RenderIds :
          renders[r].by = "seq" /\ renders[r].page > 1 /\ renders[r].stage = "failed"
    /\ caught[1].step = "seq"

\* C11: when every library promise settles and the timer fires, every page
\* 1..numPages is eventually in renderedPages, whatever the user presses or
\* clicks meanwhile, with a match and without one.
C11_EveryPageEventuallyRendered == <>(renderedPages = 1..numPages)

\* all pages are rendered in a session with a match, after the user's events
\* have chained renders of their own during the fill
C11_Witness ==
    /\ renderedPages = 1..numPages
    /\ bestMatch # <<>>
    /\ mainPc = "done"
    /\ \E r, q \in RenderIds :
          r < q /\ IsNav(renders[r]) /\ renders[r].stage = "done" /\ renders[q].by = "bg"

\* the renderPage calls that have started for page k
Started(k) == {r \in RenderIds : renders[r].page = k /\ renders[r].stage # "queued"}

\* C12: as long as no library call has failed, renderPage is started at most
\* once per page of the document, and no render is started for a page that is
\* in renderedPages or has its wrapper in the container.
C12_EachPageRenderedOnce ==
    failures = 0 =>
        \A k \in 1..numPages :
            /\ Cardinality(Started(k)) <= 1
            /\ \A r \in Started(k) :
                  InFlight(renders[r]) /\ renders[r].wrapper = 0
                      => (k \notin renderedPages /\ Attached(k) = {})

\* C13: as long as no library call has failed, a wrapper carries a highlight
\* only if its page is in renderedPages, that is only after the rasterization
\* and the text layer of the page have completed.
C13_HighlightOnlyAfterRender ==
    failures = 0 =>
        \A w \in 1..Len(wrappers) :
            wrappers[w].hl > 0 => wrappers[w].page \in renderedPages

\* the highlight elements on the wrappers 1..n of ws that are in the container
\* with id page-k
RECURSIVE HlUpTo(_, _, _)
HlUpTo(ws, k, n) ==
    IF n = 0 THEN 0
    ELSE HlUpTo(ws, k, n - 1)
         + (IF ws[n].attached /\ ws[n].page = k THEN ws[n].hl ELSE 0)

\* the highlight elements shown on page k
Highlights(ws, k) == HlUpTo(ws, k, Len(ws))

\* a step in which click handler c gets past line 388 and returns
ClickCompletes(c) ==
    /\ c \in 1..Len(clicks)
    /\ clicks[c].render = 0
    /\ clicks' = Remove(clicks, c)
    /\ UNCHANGED <<renders, failures>>

\* a completed click appends exactly one highlight to the wrapper it found at
\* line 384 and changes no other wrapper
AddsOne ==
    \A c \in 1..Len(clicks) :
        ClickCompletes(c) =>
            /\ Len(wrappers') = Len(wrappers)
            /\ wrappers[clicks[c].wrapper].page = clicks[c].page
            /\ \A w \in 1..Len(wrappers) :
                  wrappers'[w] = IF w = clicks[c].wrapper
                                 THEN [wrappers[w] EXCEPT !.hl = @ + 1]
                                 ELSE wrappers[w]

CurOpener == CHOOSE k \in opened : \A m \in opened : m <= k

CurRuns == CurOpener..(itemIdx - 1)

\* the open line has the x and y of the run that opened it and the height of
\* its tallest run
OpenLineShape ==
    fold.cur # <<>> =>
        /\ fold.cur[1].x = items[CurOpener].x
        /\ fold.cur[1].y = items[CurOpener].y
        /\ \A j \in CurRuns : fold.cur[1].height >= ItemH(items[j])
        /\ \E j \in CurRuns : fold.cur[1].height = ItemH(items[j])

\* C15: while glyph runs are folded into an open line its width never
\* decreases, its x and y stay those of the run that opened it and its height
\* is the maximum height of the runs folded so far; a line that has been
\* pushed is never changed or split afterwards.
C15_LinesOnlyExtended ==
    [][/\ OpenLineShape'
       /\ (fold.cur # <<>> /\ Len(fold'.lines) = Len(fold.lines)) =>
             /\ fold'.cur # <<>>
             /\ fold'.cur[1].width >= fold.cur[1].width
       /\ Len(fold'.lines) >= Len(fold.lines)
       /\ SubSeq(fold'.lines, 1, Len(fold.lines)) = fold.lines]_vars

\* a line has been pushed, and the open line has been widened and made taller
\* by a second run
C15_Witness ==
    /\ fold.lines # <<>>
    /\ fold.cur # <<>>
    /\ Cardinality(CurRuns) = 2
    /\ fold.cur[1].width > ItemW(items[CurOpener])
    /\ fold.cur[1].height > ItemH(items[CurOpener])

\* t is not empty, does not start or end with whitespace and has no two
\* adjacent whitespace characters
Tidy(t) ==
    /\ t # <<>>
    /\ t[1] \notin Whitespace
    /\ t[Len(t)] \notin Whitespace
    /\ \A i \in 1..(Len(t) - 1) : ~(t[i] \in Whitespace /\ t[i + 1] \in Whitespace)

\* C16: normalising the text of a corpus line again returns the same text, and
\* no corpus line has empty text, leading or trailing whitespace or two
\* adjacent whitespace characters.
C16_NormalizationIdempotent ==
    \A n \in 1..Len(searchableCorpus) :
        /\ normalizedText(searchableCorpus[n].text) = searchableCorpus[n].text
        /\ Tidy(searchableCorpus[n].text)

\* the page had a line of whitespace only, which was dropped, and a line whose
\* text the normalisation changed
C16_Witness ==
    /\ exPc = "done"
    /\ \E m \in 1..Len(fold.lines) : normalizedText(fold.lines[m].text) = <<>>
    /\ \E m \in 1..Len(fold.lines), n \in 1..Len(searchableCorpus) :
          /\ ~Tidy(fold.lines[m].text)
          /\ searchableCorpus[n].text = normalizedText(fold.lines[m].text)

\* C17: every page number the navigation controls have passed to scrollToPage,
\* and so to renderPage, lies in 1..numPages.
C17_NavigationPagesInRange ==
    \A r \in RenderIds :
        renders[r].by = "button" => renders[r].page \in 1..numPages

====
